---- MODULE Spec2Model ----
(***************************************************************************)
(* A model of flint's entity queries and RDL markup translators:           *)
(*   flint/interface.py          rdl_to_html, html_to_rdl, RDL_TO_HTML     *)
(*   flint/entities/solars.py    Loadout.loot, Jump.destination_system     *)
(*   flint/entities/universe.py  System.connections, System.lanes,         *)
(*                               Base.solar, Base.has_solar, Base.owner,   *)
(*                               Base.rumors, Faction.rep_sheet,           *)
(*                               Faction.can_dock_at                       *)
(* Each group of operations has its own specification over the shared      *)
(* variables; the variables of the other groups stay at their idle values. *)
(***************************************************************************)
EXTENDS Integers, Sequences, FiniteSets, TLC

VARIABLES
  mk_pc,      \* markup: the call in progress, "forward" -> "reverse" -> "again" -> "done"
  mk_i,       \* markup: the table entry the running translator's loop is at
  mk_result,  \* markup: the local `result` of the running translator
  mk_rdl,     \* markup: the RDL text x given to rdl_to_html
  mk_html,    \* markup: h = rdl_to_html(x)
  mk_back,    \* markup: html_to_rdl(h)
  mk_again    \* markup: rdl_to_html(html_to_rdl(h))

mk_vars == <<mk_pc, mk_i, mk_result, mk_rdl, mk_html, mk_back, mk_again>>

VARIABLES
  lo_cargo,   \* the attribute Loadout.cargo of the loadout queried
  rb_mbase,   \* the mission-base entry of the base queried: its NPC records
  q_ret       \* the last query: its name, the error it raised or None, what it returned

q_vars == <<lo_cargo, rb_mbase, q_ret>>

VARIABLES
  ln_rings,   \* the TradeLaneRing records of the system, in the order of its contents
  ln_pc,      \* System.lanes(): "call" -> "for" <-> "while" -> "done"
  ln_lanes,   \* the local dict `lanes`: <<first_ring, rings appended>> in insertion order
  ln_first,   \* the position in `lanes` of the for loop
  ln_current, \* the local `current_ring`
  ln_more     \* the rings appended to a lane beyond the MaxWalk recorded, modulo 2

ln_vars == <<ln_rings, ln_pc, ln_lanes, ln_first, ln_current, ln_more>>

VARIABLES
  un_contents, \* the solars of the system of the base queried, in order
  un_rep       \* the attribute Faction.rep of the faction queried: (value, nickname) pairs

un_vars == <<un_contents, un_rep>>

vars == <<mk_vars, q_vars, ln_vars, un_vars>>

(***************************************************************************)
(* Python values.  A value whose type the code tests carries the name of   *)
(* that type first: <<"str", s>>, <<"tuple", ...>>, <<"list", items>>.     *)
(***************************************************************************)
None == <<"NoneType">>

Str(s) == <<"str", s>>

List(items) == <<"list", items>>

\* bool(v) of the values the queries test: None, the empty string and the
\* empty list are false.
Truthy(v) == v # None /\ v # Str("") /\ v # List(<<>>)

\* No call has been made yet.
NoCall == [op |-> "none", raised |-> "None", value |-> <<>>]

\* op returned value.
Returned(op, value) == [op |-> op, raised |-> "None", value |-> value]

\* op raised the exception exc.
Raised(op, exc) == [op |-> op, raised |-> exc, value |-> <<>>]

(***************************************************************************)
(* interface.py: the RDL <-> HTML translators.  Texts are TLA+ strings;    *)
(* SubSeq, Len and \o act on them as on sequences of characters.           *)
(***************************************************************************)

\* The lookup table, in the order of the dict literal (a dict iterates in
\* insertion order).  Each entry is <<rdl_tag, html_tag>>.
RDL_TO_HTML ==
  <<
     <<"<TRA data=\"1\" mask=\"1\" def=\"-2\"/>",       "<b>">>,
     <<"<TRA bold=\"true\"/>",                          "<b>">>,
     <<"<TRA data=\"0\" mask=\"1\" def=\"-1\"/>",       "</b>">>,
     <<"<TRA data=\"0x00000001\" mask=\"-1\" def=\"-2\"/>", "<b>">>,
     <<"<TRA data=\"0x00000000\" mask=\"-1\" def=\"-1\"/>", "</b>">>,
     <<"<TRA bold=\"default\"/>",                       "</b>">>,
     <<"<TRA data=\"2\" mask=\"3\" def=\"-3\"/>",       "<i>">>,
     <<"<TRA data=\"0\" mask=\"3\" def=\"-1\"/>",       "</i>">>,
     <<"<TRA data=\"98\" mask=\"-29\" def=\"-3\"/>",    "<i>">>,
     <<"<TRA data=\"96\" mask=\"-29\" def=\"-1\"/>",    "</i>">>,
     <<"<TRA data=\"2\" mask=\"2\" def=\"-3\"/>",       "<i>">>,
     <<"<TRA data=\"0\" mask=\"2\" def=\"-1\"/>",       "</i>">>,
     <<"<TRA data=\"5\" mask=\"5\" def=\"-6\"/>",       "<b><u>">>,
     <<"<TRA data=\"0\" mask=\"5\" def=\"-1\"/>",       "</b></u>">>,
     <<"<TRA data=\"5\" mask=\"7\" def=\"-6\"/>",       "<b><u>">>,
     <<"<TRA data=\"0\" mask=\"7\" def=\"-1\"/>",       "</b></u>">>,
     <<"<TRA color=\"default\" bold=\"default\"/>",     "</font></b>">>,
     <<"<TRA data=\"65280\" mask=\"-32\" def=\"31\"/>", "<font color=\"red\">">>,
     <<"<TRA color=\"#ff0000\" bold=\"true\"/>",        "<font color=\"red\"><b>">>,
     <<"<TRA data=\"96\" mask=\"-32\" def=\"-1\"/>",    "</font>">>,
     <<"<TRA color=\"default\"/>",                      "</font>">>,
     <<"<TRA data=\"65281\" mask=\"-31\" def=\"30\"/>", "<b><font color=\"red\">">>,
     <<"<TRA data=\"96\" mask=\"-31\" def=\"-1\"/>",    "</b></font>">>,
     <<"<TRA data=\"-16777216\" mask=\"-32\" def=\"31\"/>", "<font color=\"blue\">">>,
     <<"<TRA color=\"white\" bold=\"default\"/>",       "</b><font color=\"white>">>,
     <<"<PARA/>",                                       "<p>">>,
     <<"</PARA>",                                       "</p>">>,
     <<"<JUST loc=\"left\"/>",                          "<p align=\"left\">">>,
     <<"<JUST loc=\"center\"/>",                        "<p align=\"center\">">>,
     <<" ",                                             "&nbsp;">>,
     <<"<RDL>",                                         "">>,
     <<"</RDL>",                                        "">>,
     <<"<TEXT>",                                        "">>,
     <<"</TEXT>",                                       "">>,
     <<"<PUSH/>",                                       "">>,
     <<"<POP/>",                                        "">>,
     <<"<?xml version=\"1.0\" encoding=\"UTF-16\"?>",   "">>
  >>

\* How many entries of RDL_TO_HTML, from the first, the translators walk.
TableLen == 31

TableEnd == IF TableLen < Len(RDL_TO_HTML) THEN TableLen ELSE Len(RDL_TO_HTML)

\* str.replace with an empty pattern: `new` goes before every character and
\* after the last one ("ab".replace("", "-") = "-a-b-").
RECURSIVE Interleave(_, _, _, _)
Interleave(s, new, lo, hi) ==
  IF lo > hi THEN ""
  ELSE IF lo = hi THEN SubSeq(s, lo, lo) \o new
  ELSE LET mid == (lo + hi) \div 2
       IN  Interleave(s, new, lo, mid) \o Interleave(s, new, mid + 1, hi)

\* str.replace from position i on: the leftmost occurrence is replaced and the
\* scan goes on after it, so replaced occurrences never overlap.
RECURSIVE ReplaceFrom(_, _, _, _)
ReplaceFrom(s, old, new, i) ==
  LET occ == {j \in i..(Len(s) - Len(old) + 1) : SubSeq(s, j, j + Len(old) - 1) = old}
  IN  IF occ = {} THEN SubSeq(s, i, Len(s))
      ELSE LET j == CHOOSE k \in occ : \A m \in occ : k <= m
           IN  SubSeq(s, i, j - 1) \o new \o ReplaceFrom(s, old, new, j + Len(old))

\* Python's s.replace(old, new): every occurrence, also of the empty pattern.
replace(s, old, new) ==
  IF old = "" THEN new \o Interleave(s, new, 1, Len(s))
  ELSE ReplaceFrom(s, old, new, 1)

\* A slip of line 26: the two sides of the entry are taken the other way round.
rdl_to_html_step_swapped(result, i) ==
  replace(result, RDL_TO_HTML[i][2], RDL_TO_HTML[i][1])

\* One pass of the loop of rdl_to_html, at entry i of RDL_TO_HTML.items().
rdl_to_html_step(result, i) ==
  replace(result, RDL_TO_HTML[i][1], RDL_TO_HTML[i][2])

\* One pass of the loop of html_to_rdl, at entry i of RDL_TO_HTML.items().
html_to_rdl_step(result, i) ==
  replace(result, RDL_TO_HTML[i][2], RDL_TO_HTML[i][1])

\* The texts handed to rdl_to_html: up to MaxWords words, each a plain
\* character or a tag of the table.
MaxWords == 2

Words ==
  {"a", "<", "<PARA/>", "<TRA bold=\"true\"/>", "<TRA data=\"1\" mask=\"1\" def=\"-2\"/>",
   "<TRA data=\"5\" mask=\"5\" def=\"-6\"/>", "<RDL>", "<b>"}

RECURSIVE Texts(_)
Texts(n) ==
  IF n = 0 THEN {""}
  ELSE Texts(n - 1) \cup {t \o w : t \in Texts(n - 1), w \in Words}

\* The translators, when only queries run.
MkIdle ==
  /\ mk_pc = "idle"
  /\ mk_i = 1
  /\ mk_result = ""
  /\ mk_rdl = ""
  /\ mk_html = ""
  /\ mk_back = ""
  /\ mk_again = ""

\* The entities of the queries, when only the translators run.
QIdle ==
  /\ lo_cargo = None
  /\ rb_mbase = None
  /\ q_ret = NoCall

\* An empty system and a faction without reputations, when neither is queried.
UnIdle ==
  /\ un_contents = <<>>
  /\ un_rep = <<>>

\* A system without trade lanes, when lanes() is not called.
LnIdle ==
  /\ ln_rings = <<>>
  /\ ln_pc = "idle"
  /\ ln_lanes = <<>>
  /\ ln_first = 1
  /\ ln_current = None
  /\ ln_more = 0

\* rdl_to_html(x) is called: result = rdl.
MkInit ==
  /\ mk_pc = "forward"
  /\ mk_rdl \in Texts(MaxWords)
  /\ mk_result = mk_rdl
  /\ mk_i = 1
  /\ mk_html = ""
  /\ mk_back = ""
  /\ mk_again = ""
  /\ QIdle
  /\ LnIdle
  /\ UnIdle

\* rdl_to_html, one pass of its loop (the first call and the call on html_to_rdl(h)).
ForwardStep ==
  /\ mk_pc \in {"forward", "again"}
  /\ mk_i <= TableEnd
  /\ mk_result' = rdl_to_html_step(mk_result, mk_i)
  /\ mk_i' = mk_i + 1
  /\ UNCHANGED <<mk_pc, mk_rdl, mk_html, mk_back, mk_again>>
  /\ UNCHANGED <<q_vars, ln_vars, un_vars>>

\* rdl_to_html(x) returns h, and html_to_rdl(h) is called.
ForwardReturn ==
  /\ mk_pc = "forward"
  /\ mk_i > TableEnd
  /\ mk_html' = mk_result
  /\ mk_pc' = "reverse"
  /\ mk_i' = 1
  /\ UNCHANGED <<mk_result, mk_rdl, mk_back, mk_again>>
  /\ UNCHANGED <<q_vars, ln_vars, un_vars>>

\* html_to_rdl, one pass of its loop.
ReverseStep ==
  /\ mk_pc = "reverse"
  /\ mk_i <= TableEnd
  /\ mk_result' = html_to_rdl_step(mk_result, mk_i)
  /\ mk_i' = mk_i + 1
  /\ UNCHANGED <<mk_pc, mk_rdl, mk_html, mk_back, mk_again>>
  /\ UNCHANGED <<q_vars, ln_vars, un_vars>>

\* html_to_rdl(h) returns, and rdl_to_html is called on what it returned.
ReverseReturn ==
  /\ mk_pc = "reverse"
  /\ mk_i > TableEnd
  /\ mk_back' = mk_result
  /\ mk_pc' = "again"
  /\ mk_i' = 1
  /\ UNCHANGED <<mk_result, mk_rdl, mk_html, mk_again>>
  /\ UNCHANGED <<q_vars, ln_vars, un_vars>>

\* rdl_to_html(html_to_rdl(h)) returns.
AgainReturn ==
  /\ mk_pc = "again"
  /\ mk_i > TableEnd
  /\ mk_again' = mk_result
  /\ mk_pc' = "done"
  /\ UNCHANGED <<mk_i, mk_result, mk_rdl, mk_html, mk_back>>
  /\ UNCHANGED <<q_vars, ln_vars, un_vars>>

MkNext ==
  \/ ForwardStep
  \/ ForwardReturn
  \/ ReverseStep
  \/ ReverseReturn
  \/ AgainReturn

SpecMarkup == MkInit /\ [][MkNext]_vars

\* C1: for every markup text x, with h = rdl_to_html(x), the reverse translator
\* followed by the forward translator reproduces h: rdl_to_html(html_to_rdl(h)) = h.
C1_RoundTripStable == mk_pc = "done" => mk_again = mk_html


(***************************************************************************)
(* interface.py: rdl_to_html alone, over the whole table                   *)
(***************************************************************************)

\* The texts of a single call of rdl_to_html: plain characters, tags of the
\* HTML side of the table, and tags of its markup side.
HtmlWords ==
  {"a", "<", "<b>", "</b></u>", "<p>", "&nbsp;", "<PARA/>", "<TEXT>"}

RECURSIVE HtmlTexts(_)
HtmlTexts(n) ==
  IF n = 0 THEN {""}
  ELSE HtmlTexts(n - 1) \cup {t \o w : t \in HtmlTexts(n - 1), w \in HtmlWords}

\* rdl_to_html(rdl) is called: result = rdl.
FwInit ==
  /\ mk_pc = "translate"
  /\ mk_rdl \in HtmlTexts(MaxWords)
  /\ mk_result = mk_rdl
  /\ mk_i = 1
  /\ mk_html = ""
  /\ mk_back = ""
  /\ mk_again = ""
  /\ QIdle
  /\ LnIdle
  /\ UnIdle

\* rdl_to_html, one pass of its loop over RDL_TO_HTML.items().
RdlToHtmlStep ==
  /\ mk_pc = "translate"
  /\ mk_i <= Len(RDL_TO_HTML)
  /\ mk_result' = rdl_to_html_step(mk_result, mk_i)
  /\ mk_i' = mk_i + 1
  /\ UNCHANGED <<mk_pc, mk_rdl, mk_html, mk_back, mk_again>>
  /\ UNCHANGED <<q_vars, ln_vars, un_vars>>

\* rdl_to_html returns result.
RdlToHtmlReturn ==
  /\ mk_pc = "translate"
  /\ mk_i > Len(RDL_TO_HTML)
  /\ mk_html' = mk_result
  /\ mk_pc' = "returned"
  /\ UNCHANGED <<mk_i, mk_result, mk_rdl, mk_back, mk_again>>
  /\ UNCHANGED <<q_vars, ln_vars, un_vars>>

FwNext == RdlToHtmlStep \/ RdlToHtmlReturn

SpecForward == FwInit /\ [][FwNext]_vars

\* The pattern occurs somewhere in the text.
C12_Occurs(pattern, text) ==
  \E k \in 1..(Len(text) - Len(pattern) + 1) :
    SubSeq(text, k, k + Len(pattern) - 1) = pattern

\* No markup-side pattern of the table occurs in the text handed in.
C12_NoMarkupPattern ==
  \A i \in 1..Len(RDL_TO_HTML) : ~C12_Occurs(RDL_TO_HTML[i][1], mk_rdl)

\* C12: for a text in which no markup-side pattern of RDL_TO_HTML occurs (only
\* HTML-side tags and plain characters), rdl_to_html returns the text
\* unchanged: no pass of its loop changes result, and what it returns is the
\* text handed in.
C12_ForwardIdentity ==
  C12_NoMarkupPattern =>
    /\ mk_pc \in {"translate", "returned"} => mk_result = mk_rdl
    /\ mk_pc = "returned" => mk_html = mk_rdl

\* rdl_to_html has returned for a text of an HTML-side tag and a plain character.
C12_Witness ==
  /\ mk_pc = "returned"
  /\ mk_rdl = "<p>a"
  /\ C12_NoMarkupPattern

(***************************************************************************)
(* Entity registries.  An entity stands for itself under its nickname; a   *)
(* registry is the set of the nicknames it knows.                          *)
(***************************************************************************)

\* routines.get_equipment(): the nicknames of the Equipment entities.
get_equipment == {"ammo_01", "shield_01"}

\* routines.get_factions(): the nicknames of the Faction entities.
get_factions == {"li_n_grp", "fc_x_grp"}

\* A nickname no registry knows.
Unknown == "ghost"

\* EntitySet.__contains__: whether the registry knows the nickname.
EntitySetContains(registry, nickname) == nickname \in registry

\* EntitySet.get(nickname): the entity, or None when the registry does not
\* know the nickname.
EntitySetGet(registry, nickname) ==
  IF EntitySetContains(registry, nickname) THEN Str(nickname) ELSE None

\* The members of a set of positions, in ascending order.
RECURSIVE Positions(_)
Positions(S) ==
  IF S = {} THEN <<>>
  ELSE LET i == CHOOSE x \in S : \A y \in S : x <= y
       IN  <<i>> \o Positions(S \ {i})

(***************************************************************************)
(* solars.py: Loadout.loot                                                 *)
(***************************************************************************)

\* An item descriptor of a cargo: a bare nickname, or (nickname, amount).
Bare(nickname) == Str(nickname)

Pair(nickname, amount) == <<"tuple", nickname, amount>>

\* Lines 157-158: a cargo that is not a list, and is not empty, is replaced
\* by the list holding it; the attribute itself is assigned.
loot_cargo(cargo) ==
  IF cargo[1] # "list" /\ Truthy(cargo) THEN List(<<cargo>>) ELSE cargo

\* Lines 160-161: the descriptors the loop walks.
loot_items(cargo) ==
  IF Truthy(loot_cargo(cargo)) THEN loot_cargo(cargo)[2] ELSE <<>>

\* Lines 162-163: a descriptor that is not a tuple becomes [equip, 1].
loot_equip(equip) ==
  IF equip[1] # "tuple" THEN <<equip[2], 1>> ELSE <<equip[2], equip[3]>>

\* Line 165: result, one [entity, amount] per descriptor, in cargo order.
loot_result(cargo) ==
  [i \in 1..Len(loot_items(cargo)) |-> loot_equip(loot_items(cargo)[i])]

\* Line 165: the lookup get_equipment()[nickname] fails for some descriptor.
loot_raises(cargo) ==
  \E i \in 1..Len(loot_items(cargo)) :
    ~EntitySetContains(get_equipment, loot_result(cargo)[i][1])

\* Line 167: dict(result) keeps the keys in the order they are first seen;
\* these are the positions of result that bring a new key.
dict_keys(result) ==
  Positions({i \in 1..Len(result) : \A j \in 1..(i - 1) : result[j][1] # result[i][1]})

\* Line 167: dict(result) maps a key to the value of its last pair.
dict_value(result, key) ==
  LET last == CHOOSE i \in 1..Len(result) :
                /\ result[i][1] = key
                /\ \A j \in (i + 1)..Len(result) : result[j][1] # key
  IN  result[last][2]

\* Lines 170-171: [i[0] for i in result].count(e)
loot_count(result, e) == Cardinality({i \in 1..Len(result) : result[i][1] = e})

\* Lines 169-171: the value of key e after the loop over default.
loot_default(result, e) ==
  IF loot_count(result, e) > 1 THEN loot_count(result, e) ELSE dict_value(result, e)

\* Lines 167-173: the list of [entity, amount] that loot() returns.
loot_return(result) ==
  [k \in 1..Len(dict_keys(result)) |->
     <<result[dict_keys(result)[k]][1], loot_default(result, result[dict_keys(result)[k]][1])>>]

\* A slip of line 165: a nickname that does not resolve is passed over.
loot_skips_unresolved(cargo) ==
  Returned("loot",
    loot_return(SelectSeq(loot_result(cargo),
                          LAMBDA pair : EntitySetContains(get_equipment, pair[1]))))

\* Loadout.loot(): what the call gives for the cargo attribute it finds.
loot(cargo) ==
  IF loot_raises(cargo) THEN Raised("loot", "KeyError")
  ELSE Returned("loot", loot_return(loot_result(cargo)))

(***************************************************************************)
(* universe.py: Base.rumors                                                *)
(***************************************************************************)

\* A rumor of an NPC record: a tuple whose last field is the rumor's id.
Rumor(rumor_id) == <<"tuple", rumor_id>>

\* An NPC record of a mission base.
Npc(rumor, affiliation) == [rumor |-> rumor, affiliation |-> affiliation]

\* A mission-base entry: its NPC records and its local faction.
MBase(npcs, local_faction) == <<"MBase", npcs, local_faction>>

mbase_npcs(mbase) == mbase[2]

mbase_local_faction(mbase) == mbase[3]

\* lookup(rumor_id): the text of a rumor in the markup asked for.
lookup(rumor_id) == <<"text", rumor_id>>

\* Lines 164-166: the rumor field of an NPC record after the loop body has run.
rumors_npc(npc) ==
  IF Truthy(npc.rumor) /\ npc.rumor[1] # "list"
  THEN [npc EXCEPT !.rumor = List(<<npc.rumor>>)]
  ELSE npc

\* Line 168: the lookup get_factions()[npc.affiliation] fails at this record.
rumors_raises_at(npc) ==
  Truthy(npc.rumor) /\ ~EntitySetContains(get_factions, npc.affiliation)

\* The records the loop of line 163 reaches: all of them, or those up to
\* and including the first at which line 168 raises.
rumors_reached(npcs) ==
  {i \in 1..Len(npcs) : \A j \in 1..(i - 1) : ~rumors_raises_at(npcs[j])}

\* The NPC records after rumors() has run: the records reached are normalised.
rumors_npcs(npcs) ==
  [i \in 1..Len(npcs) |-> IF i \in rumors_reached(npcs) THEN rumors_npc(npcs[i]) ELSE npcs[i]]

\* Lines 160-171: the dict {faction -> set of rumor texts}.
rumors_dict(npcs) ==
  LET told == {i \in 1..Len(npcs) : Truthy(npcs[i].rumor)}
      keys == {npcs[i].affiliation : i \in told}
  IN  [f \in keys |->
         UNION {{lookup(rumors_npc(npcs[i]).rumor[2][k][2]) :
                   k \in 1..Len(rumors_npc(npcs[i]).rumor[2])} :
                i \in {n \in told : npcs[n].affiliation = f}}]

\* Base.rumors(): what the call gives for the mission-base entry it finds.
rumors(mbase) ==
  IF ~Truthy(mbase) THEN Returned("rumors", <<>>)
  ELSE IF \E i \in 1..Len(mbase_npcs(mbase)) : rumors_raises_at(mbase_npcs(mbase)[i])
       THEN Raised("rumors", "KeyError")
       ELSE Returned("rumors", rumors_dict(mbase_npcs(mbase)))

(***************************************************************************)
(* The loadout and the base that are queried.                              *)
(***************************************************************************)

\* The longest cargo list, and the largest amount of a descriptor.
MaxCargo == 3

MaxAmount == 3

Nicknames == get_equipment \cup {Unknown}

Descriptors ==
  {Bare(n) : n \in Nicknames} \cup {Pair(n, a) : n \in Nicknames, a \in 1..MaxAmount}

RECURSIVE SeqsUpTo(_, _)
SeqsUpTo(S, n) ==
  IF n = 0 THEN {<<>>}
  ELSE SeqsUpTo(S, n - 1) \cup {Append(s, x) : s \in SeqsUpTo(S, n - 1), x \in S}

\* Loadout.cargo as the record source leaves it: absent, one descriptor, or
\* a list of descriptors.
Cargos == {None} \cup Descriptors \cup {List(items) : items \in SeqsUpTo(Descriptors, MaxCargo)}

\* The most NPC records of a mission base, and the most rumors of a record.
MaxNpcs == 2

MaxRumors == 2

RumorIds == {101, 102}

RumorFields ==
  {None} \cup {Rumor(r) : r \in RumorIds}
         \cup {List(rs) : rs \in SeqsUpTo({Rumor(r) : r \in RumorIds}, MaxRumors)}

Npcs == {Npc(r, a) : r \in RumorFields, a \in get_factions \cup {Unknown}}

MBases == {None} \cup {MBase(npcs, "li_n_grp") : npcs \in SeqsUpTo(Npcs, MaxNpcs)}

\* A loadout with any cargo beside a base without mission entry, or a base
\* with any mission entry beside a loadout without cargo.
QInit ==
  /\ \/ lo_cargo \in Cargos /\ rb_mbase = None
     \/ lo_cargo = None /\ rb_mbase \in MBases
  /\ q_ret = NoCall
  /\ MkIdle
  /\ LnIdle
  /\ UnIdle

\* A call of Loadout.loot().
Loot ==
  /\ lo_cargo' = loot_cargo(lo_cargo)
  /\ q_ret' = loot(lo_cargo)
  /\ UNCHANGED <<rb_mbase, mk_vars, ln_vars, un_vars>>

\* A call of Base.rumors().
Rumors ==
  /\ rb_mbase' = IF Truthy(rb_mbase)
                 THEN MBase(rumors_npcs(mbase_npcs(rb_mbase)), mbase_local_faction(rb_mbase))
                 ELSE rb_mbase
  /\ q_ret' = rumors(rb_mbase)
  /\ UNCHANGED <<lo_cargo, mk_vars, ln_vars, un_vars>>

QNext == Loot \/ Rumors

SpecQueries == QInit /\ [][QNext]_vars

\* The descriptors of the loadout's cargo, as a list (after a call of loot()
\* the attribute is that list, or is empty).
C2_Items == IF lo_cargo[1] = "list" THEN lo_cargo[2] ELSE <<>>

\* The amount a descriptor stands for: a bare nickname counts as 1.
C2_Amount(equip) == IF equip[1] = "tuple" THEN equip[3] ELSE 1

\* The sum of the amounts of the descriptors of items, from position i on,
\* that carry the nickname.
RECURSIVE C2_Sum(_, _, _)
C2_Sum(items, nickname, i) ==
  IF i > Len(items) THEN 0
  ELSE (IF items[i][2] = nickname THEN C2_Amount(items[i]) ELSE 0)
       + C2_Sum(items, nickname, i + 1)

\* One pair per distinct nickname, in first-seen order, with the summed amount.
C2_Aggregate(items) ==
  LET first == Positions({i \in 1..Len(items) : \A j \in 1..(i - 1) : items[j][2] # items[i][2]})
  IN  [k \in 1..Len(first) |-> <<items[first[k]][2], C2_Sum(items, items[first[k]][2], 1)>>]

\* C2: when every nickname of the cargo resolves, loot() returns one pair per
\* distinct nickname, in first-seen order, whose amount is the sum of the amounts
\* of the descriptors with that nickname (a bare nickname counts as 1).
C2_LootSumsQuantities ==
  (q_ret.op = "loot" /\ \A i \in 1..Len(C2_Items) : C2_Items[i][2] \in get_equipment)
    => q_ret = Returned("loot", C2_Aggregate(C2_Items))

\* C8: no query changes an attribute of an entity: Loadout.cargo and the NPC
\* records of the base keep the values they had before the call.
C8_QueriesLeaveAttributes == [][lo_cargo' = lo_cargo /\ rb_mbase' = rb_mbase]_vars

\* Some nickname of the cargo does not resolve to an Equipment entity.
C9_Unresolved == \E i \in 1..Len(C2_Items) : C2_Items[i][2] \notin get_equipment

\* C9: when a nickname of the cargo does not resolve, loot() fails with the
\* lookup error and returns nothing.
C9_UnresolvedCargoRaises ==
  (q_ret.op = "loot" /\ C9_Unresolved) => q_ret = Raised("loot", "KeyError")

\* loot() has failed on a cargo that also holds a nickname that resolves.
C9_Witness ==
  /\ q_ret = Raised("loot", "KeyError")
  /\ C9_Unresolved
  /\ \E i \in 1..Len(C2_Items) : C2_Items[i][2] \in get_equipment

(***************************************************************************)
(* universe.py: System.lanes                                               *)
(***************************************************************************)

\* A TradeLaneRing of the system: prev_ring and next_ring are None or the
\* nickname of a ring.
Ring(nickname, prev_ring, next_ring) ==
  [nickname |-> nickname, prev_ring |-> prev_ring, next_ring |-> next_ring]

\* Line 70: the nicknames the EntitySet `rings` knows.
lanes_rings(rings) == {rings[i].nickname : i \in 1..Len(rings)}

\* The ring of `rings` with the nickname.
ring_of(rings, nickname) ==
  rings[CHOOSE i \in 1..Len(rings) : rings[i].nickname = nickname]

\* A slip of line 71: every ring starts a lane, whatever its prev_ring.
lanes_init_any_ring(rings) == [k \in 1..Len(rings) |-> <<rings[k].nickname, <<>>>>]

\* Line 71: the rings that start a lane, each with an empty list, in the
\* order the rings are iterated.
lanes_init(rings) ==
  LET heads == Positions({i \in 1..Len(rings) : rings[i].prev_ring = None})
  IN  [k \in 1..Len(heads) |-> <<rings[heads[k]].nickname, <<>>>>]

\* Line 77: rings.get(current_ring.next_ring)
lanes_next(rings, current) ==
  EntitySetGet(lanes_rings(rings), ring_of(rings, current[2]).next_ring[2])

\* A slip of lines 78-79: a link that does not resolve empties the list.
lanes_append_or_reset(chain, current) ==
  IF Truthy(current) THEN Append(chain, current[2]) ELSE <<>>

\* Lines 78-79: the list of first_ring after the body of the while loop.
lanes_append(chain, current) ==
  IF Truthy(current) THEN Append(chain, current[2]) ELSE chain

\* A slip of line 82: the first ring is left out of its lane.
lanes_return_without_first(lanes) == [k \in 1..Len(lanes) |-> lanes[k][2]]

\* Line 82: the dict flattened into a list of lists.
lanes_return(lanes) == [k \in 1..Len(lanes) |-> <<lanes[k][1]>> \o lanes[k][2]]

\* The most rings of a system, and the most rings a walk appends to one lane
\* before the model stops following it.
MaxRings == 3

MaxWalk == 4

RingName(i) == "ring_" \o ToString(i)

\* The links a ring may carry: none, a ring of the system, or a nickname that
\* names no ring of the system.
Links(n) == {None, Str(Unknown)} \cup {Str(RingName(i)) : i \in 1..n}

\* The systems: n rings, each next_ring any link; each prev_ring is None,
\* names no ring, or names a ring whose next_ring names this one.
RingSets(n) ==
  {[i \in 1..n |-> Ring(RingName(i), prev[i], next[i])] :
     <<next, prev>> \in
       {np \in [1..n -> Links(n)] \X [1..n -> Links(n)] :
          \A i \in 1..n :
            np[2][i] \in {None, Str(Unknown)}
              \cup {Str(RingName(j)) : j \in {k \in 1..n : np[1][k] = Str(RingName(i))}}}}

LnInit ==
  /\ \E n \in 0..MaxRings : ln_rings \in RingSets(n)
  /\ ln_pc = "call"
  /\ ln_lanes = <<>>
  /\ ln_first = 1
  /\ ln_current = None
  /\ ln_more = 0
  /\ MkIdle
  /\ QIdle
  /\ UnIdle

\* Lines 70-71: lanes() is called and builds `lanes`.
LanesCall ==
  /\ ln_pc = "call"
  /\ ln_lanes' = lanes_init(ln_rings)
  /\ ln_first' = 1
  /\ ln_pc' = "for"
  /\ UNCHANGED <<ln_rings, ln_current, ln_more, mk_vars, q_vars, un_vars>>

\* Lines 73-74: the for loop takes the next first_ring.
LanesFor ==
  /\ ln_pc = "for"
  /\ ln_first <= Len(ln_lanes)
  /\ ln_current' = Str(ln_lanes[ln_first][1])
  /\ ln_pc' = "while"
  /\ ln_more' = 0
  /\ UNCHANGED <<ln_rings, ln_lanes, ln_first, mk_vars, q_vars, un_vars>>

\* Lines 75-81: the test of the while loop and one pass of its body.  The list
\* of the lane is recorded up to MaxWalk rings; of the rings a longer walk
\* appends, ln_more keeps the count modulo 2.
LanesWhile ==
  /\ ln_pc = "while"
  /\ IF Truthy(ln_current) /\ Truthy(ring_of(ln_rings, ln_current[2]).next_ring)
     THEN /\ ln_current' = lanes_next(ln_rings, ln_current)
          /\ IF Len(ln_lanes[ln_first][2]) < MaxWalk
             THEN /\ ln_lanes' = [ln_lanes EXCEPT ![ln_first][2] = lanes_append(@, ln_current')]
                  /\ UNCHANGED ln_more
             ELSE /\ ln_more' = IF Truthy(ln_current') THEN 1 - ln_more ELSE ln_more
                  /\ UNCHANGED ln_lanes
          /\ UNCHANGED <<ln_first, ln_pc>>
     ELSE /\ ln_first' = ln_first + 1
          /\ ln_pc' = "for"
          /\ UNCHANGED <<ln_current, ln_lanes, ln_more>>
  /\ UNCHANGED <<ln_rings, mk_vars, q_vars, un_vars>>

\* Line 82: the for loop is over and lanes() returns.
LanesReturn ==
  /\ ln_pc = "for"
  /\ ln_first > Len(ln_lanes)
  /\ q_ret' = Returned("lanes", lanes_return(ln_lanes))
  /\ ln_pc' = "done"
  /\ UNCHANGED <<ln_rings, ln_lanes, ln_first, ln_current, ln_more, lo_cargo, rb_mbase, mk_vars, un_vars>>

LnNext == LanesCall \/ LanesFor \/ LanesWhile \/ LanesReturn

SpecLanes == LnInit /\ [][LnNext]_vars

\* lanes() runs as one sequential call: a step that can be taken is taken.
SpecLanesRun == LnInit /\ [][LnNext]_vars /\ WF_vars(LnNext)

\* The link names a ring of the system.
C3_IsRing(link) == link # None /\ \E i \in 1..Len(ln_rings) : ln_rings[i].nickname = link[2]

\* The ring of the system with the nickname.
C3_Ring(nickname) ==
  ln_rings[CHOOSE i \in 1..Len(ln_rings) : ln_rings[i].nickname = nickname]

\* The ring with the nickname, then the rings its next_ring links lead to, as
\* long as they name rings of the system (at most fuel of them).
RECURSIVE C3_Follow(_, _)
C3_Follow(nickname, fuel) ==
  IF fuel = 0 \/ ~C3_IsRing(C3_Ring(nickname).next_ring) THEN <<nickname>>
  ELSE <<nickname>> \o C3_Follow(C3_Ring(nickname).next_ring[2], fuel - 1)

\* The rings reached from the ring with the nickname by next_ring links.
C3_Reach(nickname) ==
  {C3_Follow(nickname, Len(ln_rings))[k] : k \in 1..Len(C3_Follow(nickname, Len(ln_rings)))}

\* Every next_ring names a ring of the system whose prev_ring names the ring
\* back, and no ring leads back to itself.
C3_Consistent ==
  \A i \in 1..Len(ln_rings) :
    /\ ln_rings[i].next_ring # None =>
         /\ C3_IsRing(ln_rings[i].next_ring)
         /\ C3_Ring(ln_rings[i].next_ring[2]).prev_ring = Str(ln_rings[i].nickname)
         /\ ln_rings[i].nickname \notin C3_Reach(ln_rings[i].next_ring[2])

\* The head rings, in the order of the system's contents.
C3_Heads == Positions({i \in 1..Len(ln_rings) : ln_rings[i].prev_ring = None})

\* C3: with consistent links lanes() returns one chain per head ring, in the
\* order the heads occur in the contents, each the head followed by the rings
\* its next_ring links lead to, up to the ring without next_ring.
C3_LanesChains ==
  (ln_pc = "done" /\ C3_Consistent) =>
    q_ret = Returned("lanes",
              [k \in 1..Len(C3_Heads) |->
                 C3_Follow(ln_rings[C3_Heads[k]].nickname, Len(ln_rings))])

\* lanes() has returned a chain of three rings of a system with consistent links.
C3_Witness ==
  /\ ln_pc = "done"
  /\ C3_Consistent
  /\ \E k \in 1..Len(q_ret.value) : Len(q_ret.value[k]) = 3

\* The ring's next_ring names no ring of the system.
C4_Dangling(ring) == ring.next_ring # None /\ ~C3_IsRing(ring.next_ring)

\* C4: when a ring reached from a head has a next_ring that names no ring of
\* the system, lanes() raises nothing and the chain of that head is the rings
\* walked from the head up to that ring, which is its last.
C4_BrokenChainTruncated ==
  ln_pc = "done" =>
    /\ q_ret.op = "lanes" /\ q_ret.raised = "None"
    /\ Len(q_ret.value) = Len(C3_Heads)
    /\ \A k \in 1..Len(q_ret.value) :
         /\ q_ret.value[k][1] = ln_rings[C3_Heads[k]].nickname
         /\ \A i \in 1..Len(ln_rings) :
              (/\ ln_rings[i].nickname \in C3_Reach(q_ret.value[k][1])
               /\ C4_Dangling(ln_rings[i]))
                => /\ q_ret.value[k] = C3_Follow(q_ret.value[k][1], Len(ln_rings))
                   /\ q_ret.value[k][Len(q_ret.value[k])] = ln_rings[i].nickname

\* lanes() has returned a chain of two rings whose second ring has a next_ring
\* that names no ring.
C4_Witness ==
  /\ ln_pc = "done"
  /\ \E k \in 1..Len(q_ret.value) :
       /\ Len(q_ret.value[k]) = 2
       /\ C3_Ring(q_ret.value[k][2]).prev_ring = Str(q_ret.value[k][1])
       /\ C4_Dangling(C3_Ring(q_ret.value[k][2]))

\* The rings reached from some head ring.
C10_Reachable == UNION {C3_Reach(ln_rings[C3_Heads[k]].nickname) : k \in 1..Len(C3_Heads)}

\* C10: lanes() raises nothing, every chain it returns starts at a head ring
\* and holds only rings reached from that head, and a ring reached from no
\* head is in no chain.
C10_OrphansLeftOut ==
  ln_pc = "done" =>
    /\ q_ret.op = "lanes" /\ q_ret.raised = "None"
    /\ \A k \in 1..Len(q_ret.value) :
         /\ C3_Ring(q_ret.value[k][1]).prev_ring = None
         /\ \A j \in 1..Len(q_ret.value[k]) : q_ret.value[k][j] \in C3_Reach(q_ret.value[k][1])
    /\ \A i \in 1..Len(ln_rings) :
         ln_rings[i].nickname \notin C10_Reachable =>
           \A k \in 1..Len(q_ret.value) : \A j \in 1..Len(q_ret.value[k]) :
             q_ret.value[k][j] # ln_rings[i].nickname

\* lanes() has returned a chain, and the system holds a ring that follows a
\* ring with a prev_ring naming no ring: the head of their lane is missing.
C10_Witness ==
  /\ ln_pc = "done"
  /\ Len(q_ret.value) >= 1
  /\ \E i, j \in 1..Len(ln_rings) :
       /\ ln_rings[i].prev_ring = Str(Unknown)
       /\ ln_rings[i].next_ring = Str(ln_rings[j].nickname)
       /\ ln_rings[j].prev_ring = Str(ln_rings[i].nickname)
       /\ ln_rings[i].nickname \notin C10_Reachable
       /\ ln_rings[j].nickname \notin C10_Reachable

\* C13: lanes() terminates for every finite set of rings, also when the
\* next_ring links reachable from a head form a cycle: every call of lanes()
\* eventually returns.
C13_LanesTerminates == <>(ln_pc = "done")

\* The rings the walk from the current head has been at: the head, then the
\* rings recorded for its lane.
C13_Visited == <<ln_lanes[ln_first][1]>> \o ln_lanes[ln_first][2]

\* The walk from a head has come back to a ring it was at before: from here
\* its loop repeats.
C13_WalkRepeats ==
  /\ ln_pc = "while"
  /\ \E i, j \in 1..Len(C13_Visited) : i < j /\ C13_Visited[i] = C13_Visited[j]

(***************************************************************************)
(* solars.py and universe.py: the solars of a system, System.connections,  *)
(* Base.solar, Base.has_solar, Base.owner, Faction.rep_sheet and           *)
(* Faction.can_dock_at                                                     *)
(***************************************************************************)

\* routines.get_systems(): the nicknames of the System entities.
get_systems == {"li01", "li02"}

\* The base that is queried, and the system it names.
TheBase == [nickname |-> "li01_01_base", system |-> "li01"]

\* A solar of the system: its class, its nickname, and the fields its class
\* declares (None for the fields it does not have).
Solar(class, nickname, reputation, base, goto) ==
  [class |-> class, nickname |-> nickname, reputation |-> reputation,
   base |-> base, goto |-> goto]

\* The classes of solars.py, each with the classes it inherits from.
Bases(class) ==
  CASE class = "Jump"          -> {"Jump", "Object", "Solar"}
    [] class = "BaseSolar"     -> {"BaseSolar", "Object", "Solar"}
    [] class = "Planet"        -> {"Planet", "Spheroid", "Object", "Solar"}
    [] class = "PlanetaryBase" -> {"PlanetaryBase", "Planet", "BaseSolar", "Spheroid",
                                   "Object", "Solar"}
    [] OTHER                   -> {class}

\* EntitySet.of_type(class): the positions of the entities of the class or of
\* a class that inherits from it, in order.
EntitySetOfType(entities, class) ==
  Positions({i \in 1..Len(entities) : class \in Bases(entities[i].class)})

\* A goto tuple of a Jump: the system, the object in it, the tunnel effect.
Goto(system, object) == <<"tuple", system, object, "tunnel">>

\* Jump.destination_system, line 56: the system name of the goto field, of
\* its last tuple when it is a list.
destination(goto) ==
  IF goto[1] = "list" THEN goto[2][Len(goto[2])][2] ELSE goto[2]

\* Jump.destination_system, line 57: get_systems()[destination] finds the system.
destination_resolves(jump) ==
  EntitySetContains(get_systems, destination(jump.goto))

\* System.connections(): the dict {jump -> system}, or the error of the first
\* lookup that fails.
connections(contents) ==
  LET jumps == EntitySetOfType(contents, "Jump")
  IN  IF \E k \in 1..Len(jumps) : ~destination_resolves(contents[jumps[k]])
      THEN Raised("connections", "KeyError")
      ELSE Returned("connections",
             [n \in {contents[jumps[k]].nickname : k \in 1..Len(jumps)} |->
                destination((CHOOSE c \in {contents[jumps[k]] : k \in 1..Len(jumps)} :
                               c.nickname = n).goto)])

\* EntitySet.unique(base=nickname) over System.bases(): the position of the
\* single BaseSolar whose base field is the nickname, or 0.
unique_base(contents, nickname) ==
  LET bases == EntitySetOfType(contents, "BaseSolar")
      match == {k \in 1..Len(bases) : contents[bases[k]].base = nickname}
  IN  IF Cardinality(match) = 1 THEN bases[CHOOSE k \in match : TRUE] ELSE 0

\* Base.solar(): the BaseSolar of the base, or None.
solar(base, contents) ==
  IF unique_base(contents, base.nickname) = 0 THEN None
  ELSE Str(contents[unique_base(contents, base.nickname)].nickname)

\* A slip of Base.has_solar(): the test is turned around.
has_solar_is_none(base, contents) == solar(base, contents) = None

\* Base.has_solar()
has_solar(base, contents) == solar(base, contents) # None

\* Base.owner(): BaseSolar.owner() of the solar, else the local faction of the
\* mission base, else None; either lookup in get_factions() may fail.
owner(base, contents, mbase) ==
  IF has_solar(base, contents)
  THEN LET reputation == contents[unique_base(contents, base.nickname)].reputation
       IN  IF EntitySetContains(get_factions, reputation)
           THEN Returned("owner", Str(reputation))
           ELSE Raised("owner", "KeyError")
  ELSE IF Truthy(mbase)
       THEN IF EntitySetContains(get_factions, mbase_local_faction(mbase))
            THEN Returned("owner", Str(mbase_local_faction(mbase)))
            ELSE Raised("owner", "KeyError")
       ELSE Returned("owner", None)

\* A slip of Faction.rep_sheet(): the first pair of a nickname is kept, not the last.
rep_sheet_first_wins(rep) ==
  LET known == {i \in 1..Len(rep) : EntitySetContains(get_factions, rep[i][2])}
  IN  [f \in {rep[i][2] : i \in known} |->
         rep[CHOOSE i \in known :
               rep[i][2] = f /\ \A j \in known : rep[j][2] = f => i <= j][1]]

\* Faction.rep_sheet(): the dict {faction -> value} of the pairs whose
\* nickname get_factions() knows; a later pair replaces an earlier one.
rep_sheet(rep) ==
  LET known == {i \in 1..Len(rep) : EntitySetContains(get_factions, rep[i][2])}
  IN  [f \in {rep[i][2] : i \in known} |->
         rep[CHOOSE i \in known :
               rep[i][2] = f /\ \A j \in known : rep[j][2] = f => j <= i][1]]

\* Faction.NODOCK_REP, -0.65: reputations are counted in hundredths.
NODOCK_REP == -65

\* A slip of Faction.can_dock_at(): the threshold itself lets the faction dock.
can_dock_at_or_equal(rep, base, contents, mbase) ==
  LET o == owner(base, contents, mbase)
  IN  IF o.raised # "None" THEN Raised("can_dock_at", o.raised)
      ELSE IF o.value = None \/ o.value[2] \notin DOMAIN rep_sheet(rep)
           THEN Raised("can_dock_at", "KeyError")
           ELSE Returned("can_dock_at", rep_sheet(rep)[o.value[2]] >= NODOCK_REP)

\* Faction.can_dock_at(base): rep_sheet()[base.owner()] > NODOCK_REP
can_dock_at(rep, base, contents, mbase) ==
  LET o == owner(base, contents, mbase)
  IN  IF o.raised # "None" THEN Raised("can_dock_at", o.raised)
      ELSE IF o.value = None \/ o.value[2] \notin DOMAIN rep_sheet(rep)
           THEN Raised("can_dock_at", "KeyError")
           ELSE Returned("can_dock_at", rep_sheet(rep)[o.value[2]] > NODOCK_REP)

\* The most solars of the system.
MaxSolars == 3

SolarName(i) == "obj_" \o ToString(i)

\* What a solar may be, but for its nickname: a station or a planetary base of
\* the base queried or of another, a jump to a system that is known or not
\* (its goto one tuple or a list of them), or a planet.
Shapes ==
  {<<c, "li_n_grp", b, None>> : c \in {"BaseSolar", "PlanetaryBase"},
                                 b \in {TheBase.nickname, "li01_02_base"}}
  \cup {<<"Jump", None, None, Goto(s, "gate")>> : s \in {"li02", Unknown}}
  \cup {<<"Jump", None, None, List(<<Goto("li02", "gate"), Goto(s, "hole")>>)>> :
          s \in {"li02", Unknown}}
  \cup {<<"Planet", None, None, None>>}

Contents ==
  {[i \in 1..Len(shapes) |->
      Solar(shapes[i][1], SolarName(i), shapes[i][2], shapes[i][3], shapes[i][4])] :
     shapes \in SeqsUpTo(Shapes, MaxSolars)}

SysInit ==
  /\ un_contents \in Contents
  /\ un_rep = <<>>
  /\ lo_cargo = None
  /\ rb_mbase = None
  /\ q_ret = NoCall
  /\ MkIdle
  /\ LnIdle

\* A call of System.connections().
Connections ==
  /\ q_ret' = connections(un_contents)
  /\ UNCHANGED <<lo_cargo, rb_mbase, mk_vars, ln_vars, un_vars>>

\* A call of Base.solar().
SolarOfBase ==
  /\ q_ret' = Returned("solar", solar(TheBase, un_contents))
  /\ UNCHANGED <<lo_cargo, rb_mbase, mk_vars, ln_vars, un_vars>>

\* A call of Base.has_solar().
HasSolar ==
  /\ q_ret' = Returned("has_solar", has_solar(TheBase, un_contents))
  /\ UNCHANGED <<lo_cargo, rb_mbase, mk_vars, ln_vars, un_vars>>

SysNext == Connections \/ SolarOfBase \/ HasSolar

SpecSystem == SysInit /\ [][SysNext]_vars

\* The most pairs of a reputation vector, and the values a pair may carry, in
\* hundredths.
MaxRep == 2

RepValues == {-100, -66, -65, -64, 100}

RepPairs == {<<v, f>> : v \in RepValues, f \in get_factions \cup {Unknown}}

\* The base queried has no solar, or a solar owned by a faction known or not.
OwnedContents ==
  {<<>>} \cup {<<Solar("BaseSolar", SolarName(1), f, TheBase.nickname, None)>> :
                 f \in get_factions \cup {Unknown}}

FacInit ==
  /\ un_rep \in SeqsUpTo(RepPairs, MaxRep)
  /\ un_contents \in OwnedContents
  /\ rb_mbase \in {None} \cup {MBase(<<>>, f) : f \in get_factions \cup {Unknown}}
  /\ lo_cargo = None
  /\ q_ret = NoCall
  /\ MkIdle
  /\ LnIdle

\* A call of Base.owner().
Owner ==
  /\ q_ret' = owner(TheBase, un_contents, rb_mbase)
  /\ UNCHANGED <<lo_cargo, rb_mbase, mk_vars, ln_vars, un_vars>>

\* A call of Faction.rep_sheet().
RepSheet ==
  /\ q_ret' = Returned("rep_sheet", rep_sheet(un_rep))
  /\ UNCHANGED <<lo_cargo, rb_mbase, mk_vars, ln_vars, un_vars>>

\* A call of Faction.can_dock_at(base).
CanDockAt ==
  /\ q_ret' = can_dock_at(un_rep, TheBase, un_contents, rb_mbase)
  /\ UNCHANGED <<lo_cargo, rb_mbase, mk_vars, ln_vars, un_vars>>

FacNext == Owner \/ RepSheet \/ CanDockAt

SpecFaction == FacInit /\ [][FacNext]_vars

\* The jumps of the system whose destination names a system that is known.
C6_Resolved ==
  {i \in 1..Len(un_contents) :
     /\ un_contents[i].class = "Jump"
     /\ (IF un_contents[i].goto[1] = "list"
         THEN un_contents[i].goto[2][Len(un_contents[i].goto[2])][2]
         ELSE un_contents[i].goto[2]) \in get_systems}

\* C6: connections() raises nothing and returns the mapping of exactly the
\* jumps whose destination resolves, each to its system; a jump whose
\* destination names no known system is left out.
C6_ConnectionsOmitUnresolved ==
  q_ret.op = "connections" =>
    /\ q_ret.raised = "None"
    /\ DOMAIN q_ret.value = {un_contents[i].nickname : i \in C6_Resolved}
    /\ \A i \in C6_Resolved :
         q_ret.value[un_contents[i].nickname] \in get_systems

\* The BaseSolars of the system whose base field is the nickname of the base.
C7_Solars ==
  {i \in 1..Len(un_contents) :
     /\ un_contents[i].class \in {"BaseSolar", "PlanetaryBase"}
     /\ un_contents[i].base = TheBase.nickname}

\* C7: for a base without BaseSolar in its system, solar() returns None, raising
\* nothing, and has_solar() returns false; for a base with exactly one, solar()
\* returns that BaseSolar and has_solar() returns true.
C7_SolarOfBase ==
  /\ q_ret.op = "solar" =>
       /\ q_ret.raised = "None"
       /\ C7_Solars = {} => q_ret.value = None
       /\ \A i \in C7_Solars :
            C7_Solars = {i} => q_ret.value = Str(un_contents[i].nickname)
  /\ q_ret.op = "has_solar" =>
       /\ q_ret.raised = "None"
       /\ C7_Solars = {} => q_ret.value = FALSE
       /\ Cardinality(C7_Solars) = 1 => q_ret.value = TRUE

\* has_solar() has returned false for a base whose system holds the BaseSolar
\* of another base only.
C7_Witness ==
  /\ q_ret = Returned("has_solar", FALSE)
  /\ C7_Solars = {}
  /\ \E i \in 1..Len(un_contents) : un_contents[i].class = "BaseSolar"

\* C5: can_dock_at(base) returns whether the value of rep_sheet() at
\* base.owner() is above -0.65, false when it equals -0.65, and raises the
\* lookup error when base.owner() is None or has no entry in rep_sheet().
C5_CanDockAt ==
  (q_ret.op = "can_dock_at" /\ owner(TheBase, un_contents, rb_mbase).raised = "None") =>
    LET o     == owner(TheBase, un_contents, rb_mbase).value
        sheet == rep_sheet(un_rep)
    IN  IF o # None /\ o[2] \in DOMAIN sheet
        THEN /\ q_ret.raised = "None"
             /\ q_ret.value = TRUE <=> sheet[o[2]] > -65
             /\ q_ret.value = FALSE <=> sheet[o[2]] <= -65
        ELSE q_ret = Raised("can_dock_at", "KeyError")

\* can_dock_at(base) has returned false for an owner whose reputation is
\* exactly -0.65.
C5_Witness ==
  /\ q_ret = Returned("can_dock_at", FALSE)
  /\ owner(TheBase, un_contents, rb_mbase).raised = "None"
  /\ rep_sheet(un_rep)[owner(TheBase, un_contents, rb_mbase).value[2]] = -65

\* The positions of the reputation vector whose nickname the registry knows.
C11_Known == {i \in 1..Len(un_rep) : un_rep[i][2] \in get_factions}

\* C11 as stated: rep_sheet() does not raise, its keys are the known nicknames
\* of the reputation vector, and every pair with a known nickname is an entry
\* of the mapping with the pair's value.
C11_RepSheetEveryPair ==
  q_ret.op = "rep_sheet" =>
    /\ q_ret.raised = "None"
    /\ DOMAIN q_ret.value = {un_rep[i][2] : i \in C11_Known}
    /\ \A i \in C11_Known : q_ret.value[un_rep[i][2]] = un_rep[i][1]

\* C11 amended: rep_sheet() does not raise, its keys are the known nicknames of
\* the reputation vector, pairs with an unknown nickname are dropped, and a
\* known nickname carries the value of the last pair that names it.
C11_RepSheetLastPair ==
  q_ret.op = "rep_sheet" =>
    /\ q_ret.raised = "None"
    /\ DOMAIN q_ret.value = {un_rep[i][2] : i \in C11_Known}
    /\ \A i \in C11_Known :
         (\A j \in (i + 1)..Len(un_rep) : un_rep[j][2] # un_rep[i][2])
           => q_ret.value[un_rep[i][2]] = un_rep[i][1]

\* rep_sheet() has returned for a vector that names one known faction twice
\* with different values.
C11_Witness ==
  /\ q_ret.op = "rep_sheet"
  /\ Len(un_rep) = 2
  /\ un_rep[1][2] = un_rep[2][2]
  /\ un_rep[1][2] \in get_factions
  /\ un_rep[1][1] # un_rep[2][1]
====
